---------------------------- MODULE Spec2Model ----------------------------
(***************************************************************************)
(* Funding-rate arbitrage finder (backend): the opportunity calculator,    *)
(* the historical aggregation and the cache / refresh orchestration of     *)
(* routes/opportunities.ts.                                                *)
(*                                                                         *)
(* Conventions of the model                                                *)
(*  - Time is counted in seconds (the source counts milliseconds; every    *)
(*    duration of the source is a whole number of seconds), measured from  *)
(*    the Unix epoch, so that a timestamp of 0 lies far in the past.       *)
(*  - A symbol is a sequence of one-character strings, so that             *)
(*    toUpperCase, startsWith and substring are computed, not assumed.     *)
(*  - A number that the source holds in a double is an exact rational      *)
(*    [n, d] (d > 0, lowest terms); raw funding rates are whole multiples  *)
(*    of one rate unit.                                                    *)
(*  - A JavaScript Map is a sequence of [key, val] entries in insertion    *)
(*    order.                                                               *)
(***************************************************************************)
EXTENDS Integers, Sequences, FiniteSets, TLC

(***************************************************************************)
(* Program constants (seconds).                                            *)
(***************************************************************************)
CACHE_TTL == 60

HISTORICAL_CACHE_TTL == 3600

RATES_CACHE_DURATION_MS == 3600

SEVEN_DAYS_MS == 604800

THIRTY_DAYS_MS == 2592000

(***************************************************************************)
(* Bounds of the model.                                                    *)
(***************************************************************************)
\* start of the current calendar year, and the instant the process starts
YearStart == 100000000

StartOffset == 864000

\* how many clock advances and how many refreshOpportunities invocations a
\* behaviour may hold
MaxTicks == 2

MaxRefreshes == 2

(***************************************************************************)
(* Exact rational arithmetic standing for the source's doubles.            *)
(***************************************************************************)
Abs(x) == IF x < 0 THEN -x ELSE x

RECURSIVE GCD(_, _)
GCD(a, b) == IF b = 0 THEN a ELSE GCD(b, a % b)

Rat(n, d) ==
    LET g == GCD(Abs(n), Abs(d))
        s == IF d < 0 THEN -1 ELSE 1
    IN  [n |-> (s * n) \div g, d |-> (s * d) \div g]

RatInt(k) == [n |-> k, d |-> 1]

RatSub(a, b) == Rat(a.n * b.d - b.n * a.d, a.d * b.d)

RatAdd(a, b) == Rat(a.n * b.d + b.n * a.d, a.d * b.d)

RatMul(a, b) == Rat(a.n * b.n, a.d * b.d)

RatDiv(a, b) == Rat(a.n * b.d, a.d * b.n)

\* a comparison that is strict where the source's is not
RatGtStrict(a, b) == a.n * b.d > b.n * a.d

RatGeq(a, b) == a.n * b.d >= b.n * a.d

RatIsZero(a) == a.n = 0

(***************************************************************************)
(* Strings.                                                                *)
(***************************************************************************)
UpperChar(c) ==
    CASE c = "k" -> "K"
      [] c = "b" -> "B"
      [] c = "e" -> "E"
      [] OTHER -> c

toUpperCase(s) == [i \in 1..Len(s) |-> UpperChar(s[i])]

startsWith1000(s) == Len(s) >= 4 /\ SubSeq(s, 1, 4) = <<"1", "0", "0", "0">>

(***************************************************************************)
(* Map helpers.                                                            *)
(***************************************************************************)
MapHas(m, k) == \E i \in 1..Len(m) : m[i].key = k

MapGet(m, k) == m[CHOOSE i \in 1..Len(m) : m[i].key = k].val

MapSet(m, k, v) ==
    IF MapHas(m, k)
    THEN [i \in 1..Len(m) |-> IF m[i].key = k THEN [key |-> k, val |-> v] ELSE m[i]]
    ELSE Append(m, [key |-> k, val |-> v])

(***************************************************************************)
(* OpportunityCalculator.                                                  *)
(***************************************************************************)
\* opportunityCalculator.ts lighterToHyperliquidSymbol: 1000XXX -> KXXX
lighterToHyperliquidSymbol(lighterSymbol) ==
    IF startsWith1000(lighterSymbol)
    THEN <<"K">> \o SubSeq(lighterSymbol, 5, Len(lighterSymbol))
    ELSE lighterSymbol

annualizeFundingRate(rate, periodHours) ==
    LET periodsPerYear == RatMul(RatDiv(RatInt(24), RatInt(periodHours)), RatInt(365))
    IN  RatMul(RatMul(rate, periodsPerYear), RatInt(100))

\* a normalisation that forgets the funding period
normalizeToHourlyUnscaled(rate, periodHours) == RatInt(rate)

normalizeToHourly(rate, periodHours) == RatDiv(RatInt(rate), RatInt(periodHours))

calculateNetAPR(longRate, shortRate) ==
    LET netRate == RatSub(shortRate, longRate)
    IN  annualizeFundingRate(netRate, 1)

\* `x || dflt` on a number: 0 (and an absent field, modelled as 0) is falsy
OrDefault(x, dflt) == IF x = 0 THEN dflt ELSE x

Max(a, b) == IF a >= b THEN a ELSE b

Min(a, b) == IF a <= b THEN a ELSE b

\* Array.prototype.sort((a, b) => b.netAPR - a.netAPR): stable, descending
RECURSIVE InsertByNetAPR(_, _)
InsertByNetAPR(sorted, x) ==
    IF sorted = <<>> THEN <<x>>
    ELSE IF RatGeq(Head(sorted).netAPR, x.netAPR)
         THEN <<Head(sorted)>> \o InsertByNetAPR(Tail(sorted), x)
         ELSE <<x>> \o sorted

RECURSIVE SortByNetAPR(_)
SortByNetAPR(opps) ==
    IF opps = <<>> THEN <<>>
    ELSE InsertByNetAPR(SortByNetAPR(SubSeq(opps, 1, Len(opps) - 1)), opps[Len(opps)])

\* rates.forEach(rate => map.set(rate.symbol.toUpperCase(), rate))
RECURSIVE BuildRateMap(_, _)
BuildRateMap(rates, m) ==
    IF rates = <<>> THEN m
    ELSE BuildRateMap(Tail(rates), MapSet(m, toUpperCase(Head(rates).symbol), Head(rates)))

\* a matching that tries the 1000 -> K transform before the exact symbol
MatchTransformFirst(hyperliquidMap, symbol) ==
    LET normalizedSymbol == lighterToHyperliquidSymbol(symbol)
    IN  IF normalizedSymbol # symbol /\ MapHas(hyperliquidMap, normalizedSymbol)
        THEN normalizedSymbol
        ELSE IF MapHas(hyperliquidMap, symbol) THEN symbol ELSE <<>>

\* exact match first, then the 1000 -> K transform; "none" when neither is listed
MatchHyperliquidKey(hyperliquidMap, symbol) ==
    IF MapHas(hyperliquidMap, symbol) THEN symbol
    ELSE LET normalizedSymbol == lighterToHyperliquidSymbol(symbol)
         IN  IF normalizedSymbol # symbol /\ MapHas(hyperliquidMap, normalizedSymbol)
             THEN normalizedSymbol
             ELSE <<>>

\* a both-zero test that drops an instrument as soon as one side is zero
EitherZero(lighterHourly, hyperliquidHourly) ==
    RatIsZero(lighterHourly) \/ RatIsZero(hyperliquidHourly)

\* the both-zero test of calculateOpportunities
BothZero(lighterHourly, hyperliquidHourly) ==
    RatIsZero(lighterHourly) /\ RatIsZero(hyperliquidHourly)

\* the opportunity pushed for one matched instrument (realtime)
RealtimeOpportunity(symbol, lighterRate, hyperliquidRate) ==
    LET lighterHourly == normalizeToHourly(lighterRate.rate, OrDefault(lighterRate.periodHours, 8))
        hyperliquidHourly == normalizeToHourly(hyperliquidRate.rate, OrDefault(hyperliquidRate.periodHours, 1))
        netAPR1 == calculateNetAPR(lighterHourly, hyperliquidHourly)
        netAPR2 == calculateNetAPR(hyperliquidHourly, lighterHourly)
        lastUpdated == Max(lighterRate.timestamp, hyperliquidRate.timestamp)
    IN  IF RatGeq(netAPR1, netAPR2)
        THEN [symbol |-> symbol, longExchange |-> "lighter", shortExchange |-> "hyperliquid",
              longFundingRate |-> lighterHourly, shortFundingRate |-> hyperliquidHourly,
              netAPR |-> netAPR1, lastUpdated |-> lastUpdated]
        ELSE [symbol |-> symbol, longExchange |-> "hyperliquid", shortExchange |-> "lighter",
              longFundingRate |-> hyperliquidHourly, shortFundingRate |-> lighterHourly,
              netAPR |-> netAPR2, lastUpdated |-> lastUpdated]

\* the for-loop of calculateOpportunities over lighterMap, from entry i on
RECURSIVE MatchLoop(_, _, _, _, _)
MatchLoop(lighterMap, hyperliquidMap, i, opportunities, processedSymbols) ==
    IF i > Len(lighterMap) THEN opportunities
    ELSE LET symbol == lighterMap[i].key
             lighterRate == lighterMap[i].val
             hlKey == MatchHyperliquidKey(hyperliquidMap, symbol)
         IN  IF hlKey # <<>> /\ symbol \notin processedSymbols
             THEN LET hyperliquidRate == MapGet(hyperliquidMap, hlKey)
                      lighterHourly == normalizeToHourly(lighterRate.rate, OrDefault(lighterRate.periodHours, 8))
                      hyperliquidHourly == normalizeToHourly(hyperliquidRate.rate, OrDefault(hyperliquidRate.periodHours, 1))
                  IN  IF BothZero(lighterHourly, hyperliquidHourly)
                      THEN MatchLoop(lighterMap, hyperliquidMap, i + 1, opportunities,
                                     processedSymbols \cup {symbol})
                      ELSE MatchLoop(lighterMap, hyperliquidMap, i + 1,
                                     Append(opportunities,
                                            RealtimeOpportunity(symbol, lighterRate, hyperliquidRate)),
                                     processedSymbols \cup {symbol})
             ELSE MatchLoop(lighterMap, hyperliquidMap, i + 1, opportunities, processedSymbols)

calculateOpportunities(lighterRates, hyperliquidRates) ==
    LET lighterMap == BuildRateMap(lighterRates, <<>>)
        hyperliquidMap == BuildRateMap(hyperliquidRates, <<>>)
    IN  SortByNetAPR(MatchLoop(lighterMap, hyperliquidMap, 1, <<>>, {}))


\* the opportunity pushed for one matched symbol (historical averages)
RatesOpportunity(symbol, lighterHourly, hyperliquidHourly, timestamp, dataStartDate) ==
    LET netAPR1 == calculateNetAPR(lighterHourly, hyperliquidHourly)
        netAPR2 == calculateNetAPR(hyperliquidHourly, lighterHourly)
    IN  IF RatGeq(netAPR1, netAPR2)
        THEN [symbol |-> symbol, longExchange |-> "lighter", shortExchange |-> "hyperliquid",
              longFundingRate |-> lighterHourly, shortFundingRate |-> hyperliquidHourly,
              netAPR |-> netAPR1, lastUpdated |-> timestamp, dataStartDate |-> dataStartDate]
        ELSE [symbol |-> symbol, longExchange |-> "hyperliquid", shortExchange |-> "lighter",
              longFundingRate |-> hyperliquidHourly, shortFundingRate |-> lighterHourly,
              netAPR |-> netAPR2, lastUpdated |-> timestamp, dataStartDate |-> dataStartDate]

\* the value JavaScript's `undefined` takes where a timestamp is expected
Undefined == -1

\* the for-loop of calculateOpportunitiesFromRates over lighterRates, from entry i on
RECURSIVE RatesLoop(_, _, _, _, _, _)
RatesLoop(lighterRates, hyperliquidRates, timestamp, dataStartDates, i, opportunities) ==
    IF i > Len(lighterRates) THEN opportunities
    ELSE LET symbol == lighterRates[i].key
             lighterHourly == lighterRates[i].val
             hlKey == MatchHyperliquidKey(hyperliquidRates, symbol)
         IN  IF hlKey # <<>>
             THEN LET dataStartDate == IF MapHas(dataStartDates, symbol)
                                       THEN MapGet(dataStartDates, symbol) ELSE Undefined
                  IN  RatesLoop(lighterRates, hyperliquidRates, timestamp, dataStartDates, i + 1,
                                Append(opportunities,
                                       RatesOpportunity(symbol, lighterHourly,
                                                        MapGet(hyperliquidRates, hlKey),
                                                        timestamp, dataStartDate)))
             ELSE RatesLoop(lighterRates, hyperliquidRates, timestamp, dataStartDates, i + 1,
                            opportunities)

calculateOpportunitiesFromRates(lighterRates, hyperliquidRates, timestamp, dataStartDates) ==
    SortByNetAPR(RatesLoop(lighterRates, hyperliquidRates, timestamp, dataStartDates, 1, <<>>))

(***************************************************************************)
(* HistoricalFundingService.                                               *)
(***************************************************************************)
\* historicalFunding lighterToHyperliquidSymbol: 1000XXX -> kXXX (lowercase k)
historyLighterToHyperliquidSymbol(lighterSymbol) ==
    IF startsWith1000(lighterSymbol)
    THEN <<"k">> \o SubSeq(lighterSymbol, 5, Len(lighterSymbol))
    ELSE lighterSymbol

\* a window that is not clamped to the start of the year
getPeriodRangeUnclamped(period, now) ==
    LET startTime == CASE period = "7d" -> now - SEVEN_DAYS_MS
                       [] period = "30d" -> now - THIRTY_DAYS_MS
                       [] period = "ytd" -> YearStart
                       [] OTHER -> now
    IN  [startTime |-> startTime, endTime |-> now]

getPeriodRange(period, now) ==
    LET startTime == CASE period = "7d" -> now - SEVEN_DAYS_MS
                       [] period = "30d" -> now - THIRTY_DAYS_MS
                       [] period = "ytd" -> YearStart
                       [] OTHER -> now
    IN  [startTime |-> Max(startTime, YearStart), endTime |-> now]

InWindow(entries, startTime, endTime) ==
    SelectSeq(entries, LAMBDA e : e.timestamp >= startTime /\ e.timestamp <= endTime)

\* a normalisation that takes every entry for an 8-hour one
historyNormalizeFixedPeriod(rate, periodHours) == RatDiv(RatInt(rate), RatInt(8))

\* HistoricalFundingService.normalizeToHourly
historyNormalizeToHourly(rate, periodHours) == RatDiv(RatInt(rate), RatInt(periodHours))

RECURSIVE SumHourly(_)
SumHourly(entries) ==
    IF entries = <<>> THEN RatInt(0)
    ELSE RatAdd(historyNormalizeToHourly(Head(entries).rate, Head(entries).periodHours),
                SumHourly(Tail(entries)))

\* hourlyRates.reduce((sum, r) => sum + r, 0) / hourlyRates.length
AverageHourly(entries) == RatDiv(SumHourly(entries), RatInt(Len(entries)))

RECURSIVE MinTimestamp(_)
MinTimestamp(entries) ==
    IF Len(entries) = 1 THEN Head(entries).timestamp
    ELSE Min(Head(entries).timestamp, MinTimestamp(Tail(entries)))

\* `x ? a : b` on a timestamp: undefined and 0 are falsy
Truthy(x) == x # Undefined /\ x # 0

\* a loop body that takes a missing side for an average of 0
AggregateSymbolZeroFill(acc, symbol, raw, startTime, endTime) ==
    LET hlHistory == InWindow(raw.hl, startTime, endTime)
        ltHistory == InWindow(raw.lt, startTime, endTime)
        e0 == Undefined
        e1 == IF Len(hlHistory) > 0
              THEN (IF Truthy(e0) THEN Max(e0, MinTimestamp(hlHistory))
                    ELSE MinTimestamp(hlHistory))
              ELSE e0
        e2 == IF Len(ltHistory) > 0
              THEN (IF Truthy(e1) THEN Max(e1, MinTimestamp(ltHistory))
                    ELSE MinTimestamp(ltHistory))
              ELSE e1
    IN  [hyperliquid |-> IF Len(hlHistory) > 0
                         THEN MapSet(acc.hyperliquid, symbol, AverageHourly(hlHistory))
                         ELSE IF Len(ltHistory) > 0
                              THEN MapSet(acc.hyperliquid, symbol, RatInt(0))
                              ELSE acc.hyperliquid,
         lighter |-> IF Len(ltHistory) > 0
                     THEN MapSet(acc.lighter, symbol, AverageHourly(ltHistory))
                     ELSE IF Len(hlHistory) > 0
                          THEN MapSet(acc.lighter, symbol, RatInt(0))
                          ELSE acc.lighter,
         dataStartDates |-> IF e2 # Undefined
                            THEN MapSet(acc.dataStartDates, symbol, e2)
                            ELSE acc.dataStartDates]

\* a loop body that keeps the earlier of the two exchanges' first entries
AggregateSymbolEarliest(acc, symbol, raw, startTime, endTime) ==
    LET hlHistory == InWindow(raw.hl, startTime, endTime)
        ltHistory == InWindow(raw.lt, startTime, endTime)
        e0 == Undefined
        e1 == IF Len(hlHistory) > 0
              THEN (IF Truthy(e0) THEN Max(e0, MinTimestamp(hlHistory))
                    ELSE MinTimestamp(hlHistory))
              ELSE e0
        e2 == IF Len(ltHistory) > 0
              THEN (IF Truthy(e1) THEN Min(e1, MinTimestamp(ltHistory))
                    ELSE MinTimestamp(ltHistory))
              ELSE e1
    IN  [hyperliquid |-> IF Len(hlHistory) > 0
                         THEN MapSet(acc.hyperliquid, symbol, AverageHourly(hlHistory))
                         ELSE acc.hyperliquid,
         lighter |-> IF Len(ltHistory) > 0
                     THEN MapSet(acc.lighter, symbol, AverageHourly(ltHistory))
                     ELSE acc.lighter,
         dataStartDates |-> IF e2 # Undefined
                            THEN MapSet(acc.dataStartDates, symbol, e2)
                            ELSE acc.dataStartDates]

\* the body of the per-symbol loop of getAverageRatesForPeriod: acc is
\* [lighter, hyperliquid, dataStartDates], raw the two histories fetched
AggregateSymbol(acc, symbol, raw, startTime, endTime) ==
    LET hlHistory == InWindow(raw.hl, startTime, endTime)
        ltHistory == InWindow(raw.lt, startTime, endTime)
        e0 == Undefined
        e1 == IF Len(hlHistory) > 0
              THEN (IF Truthy(e0) THEN Max(e0, MinTimestamp(hlHistory))
                    ELSE MinTimestamp(hlHistory))
              ELSE e0
        e2 == IF Len(ltHistory) > 0
              THEN (IF Truthy(e1) THEN Max(e1, MinTimestamp(ltHistory))
                    ELSE MinTimestamp(ltHistory))
              ELSE e1
    IN  [hyperliquid |-> IF Len(hlHistory) > 0
                         THEN MapSet(acc.hyperliquid, symbol, AverageHourly(hlHistory))
                         ELSE acc.hyperliquid,
         lighter |-> IF Len(ltHistory) > 0
                     THEN MapSet(acc.lighter, symbol, AverageHourly(ltHistory))
                     ELSE acc.lighter,
         dataStartDates |-> IF e2 # Undefined
                            THEN MapSet(acc.dataStartDates, symbol, e2)
                            ELSE acc.dataStartDates]

EmptyRates == [lighter |-> <<>>, hyperliquid |-> <<>>, dataStartDates |-> <<>>]

\* a loop that gives up at the first symbol one of whose histories came
\* back empty
RECURSIVE AggregateLoopAborting(_, _, _, _, _, _)
AggregateLoopAborting(symbols, fetched, startTime, endTime, i, acc) ==
    IF i > Len(symbols) THEN acc
    ELSE IF fetched[i].hl = <<>> \/ fetched[i].lt = <<>> THEN acc
    ELSE AggregateLoopAborting(symbols, fetched, startTime, endTime, i + 1,
                               AggregateSymbol(acc, symbols[i], fetched[i], startTime, endTime))

\* the loop of getAverageRatesForPeriod; fetched[i] is what the two clients
\* returned for symbols[i] ([] when a client failed)
RECURSIVE AggregateLoop(_, _, _, _, _, _)
AggregateLoop(symbols, fetched, startTime, endTime, i, acc) ==
    IF i > Len(symbols) THEN acc
    ELSE AggregateLoop(symbols, fetched, startTime, endTime, i + 1,
                       AggregateSymbol(acc, symbols[i], fetched[i], startTime, endTime))

\* the result of an uncached getAverageRatesForPeriod call made at `now`
fetchAverageRates(symbols, period, now, fetched) ==
    LET range == getPeriodRange(period, now)
    IN  AggregateLoop(symbols, fetched, range.startTime, range.endTime, 1, EmptyRates)

\* HistoricalFundingService.annualizeFundingRate(hourlyRate)
historyAnnualizeFundingRate(hourlyRate) ==
    LET periodsPerYear == 24 * 365
    IN  RatMul(RatMul(hourlyRate, RatInt(periodsPerYear)), RatInt(100))

\* `undefined` where the source holds a number or nothing
UndefinedAPR == [n |-> 0, d |-> 0]

\* HistoricalFundingService.calculateAverageNetAPR
calculateAverageNetAPR(hlEntries, ltEntries, longExchange) ==
    IF Len(hlEntries) = 0 /\ Len(ltEntries) = 0 THEN UndefinedAPR
    ELSE LET hlAvgHourly == IF Len(hlEntries) > 0 THEN AverageHourly(hlEntries)
                            ELSE RatInt(0)
             ltAvgHourly == IF Len(ltEntries) > 0 THEN AverageHourly(ltEntries)
                            ELSE RatInt(0)
             netHourlyRate == IF longExchange = "hyperliquid"
                              THEN RatSub(ltAvgHourly, hlAvgHourly)
                              ELSE RatSub(hlAvgHourly, ltAvgHourly)
         IN  historyAnnualizeFundingRate(netHourlyRate)

\* the entries of a history at or after a time (the filters of
\* fetchHistoricalAPRs)
Since(entries, t) == SelectSeq(entries, LAMBDA e : e.timestamp >= t)

\* HistoricalFundingService.fetchHistoricalAPRs, given what the two clients
\* returned for the symbol
fetchHistoricalAPRs(hlHistory, ltHistory, longExchange, now) ==
    LET sevenDaysAgo == now - SEVEN_DAYS_MS
        thirtyDaysAgo == now - THIRTY_DAYS_MS
        yearStart == YearStart
        hl7d == Since(hlHistory, sevenDaysAgo)
        lt7d == Since(ltHistory, sevenDaysAgo)
        hl30d == Since(hlHistory, thirtyDaysAgo)
        lt30d == Since(ltHistory, thirtyDaysAgo)
        hlYtd == Since(hlHistory, yearStart)
        ltYtd == Since(ltHistory, yearStart)
    IN  [apr7d |-> IF Len(hl7d) > 0 \/ Len(lt7d) > 0
                   THEN calculateAverageNetAPR(hl7d, lt7d, longExchange)
                   ELSE UndefinedAPR,
         apr30d |-> IF Len(hl30d) > 0 \/ Len(lt30d) > 0
                    THEN calculateAverageNetAPR(hl30d, lt30d, longExchange)
                    ELSE UndefinedAPR,
         aprYtd |-> IF Len(hlYtd) > 0 \/ Len(ltYtd) > 0
                    THEN calculateAverageNetAPR(hlYtd, ltYtd, longExchange)
                    ELSE UndefinedAPR]

\* the cache test at the head of getAverageRatesForPeriod
RatesCacheValid(entry, now) ==
    entry.present /\ (now - entry.timestamp) < RATES_CACHE_DURATION_MS

(***************************************************************************)
(* routes/opportunities.ts: the pure part of refreshHistoricalData.        *)
(***************************************************************************)
symbolsOnBoth(symbols, rates) ==
    SelectSeq(symbols, LAMBDA s : MapHas(rates.lighter, s) /\ MapHas(rates.hyperliquid, s))

RECURSIVE buildRateMaps(_, _, _, _, _)
buildRateMaps(lighterMap, hlMap, symbolList, i, acc) ==
    IF i > Len(symbolList) THEN acc
    ELSE LET symbol == symbolList[i]
         IN  IF MapHas(lighterMap, symbol) /\ MapHas(hlMap, symbol)
             THEN buildRateMaps(lighterMap, hlMap, symbolList, i + 1,
                                [lighter |-> MapSet(acc.lighter, symbol, MapGet(lighterMap, symbol)),
                                 hl |-> MapSet(acc.hl, symbol, MapGet(hlMap, symbol))])
             ELSE buildRateMaps(lighterMap, hlMap, symbolList, i + 1, acc)

\* one period's bucket as refreshHistoricalData computes it
periodOpportunities(symbols, rates, now) ==
    LET maps == buildRateMaps(rates.lighter, rates.hyperliquid, symbolsOnBoth(symbols, rates),
                              1, [lighter |-> <<>>, hl |-> <<>>])
    IN  calculateOpportunitiesFromRates(maps.lighter, maps.hl, now, rates.dataStartDates)

opportunitySymbols(opps) == [i \in 1..Len(opps) |-> opps[i].symbol]


(***************************************************************************)
(* The two venues as the model's environment.                              *)
(***************************************************************************)
BTC == <<"B">>

PEPE1000 == <<"1", "0", "0", "0", "E">>

KPEPE == <<"K", "E">>

kPEPE == <<"k", "E">>

\* a market that is listed on both venues and currently pays no funding
DORMANT == <<"D">>

\* the instruments each venue lists (the clients upper-case what they return)
LighterListing == <<BTC, PEPE1000, DORMANT>>

HyperliquidListing == <<BTC, KPEPE, DORMANT>>

\* the quotes (raw rates, in rate units, one per listed instrument) a venue
\* may answer with
LighterQuotes == {<<8, 0, 0>>}

HyperliquidQuotes == {<<0, 8, 0>>}

Coins(listing, exchange) ==
    [i \in 1..Len(listing) |-> [symbol |-> listing[i], exchange |-> exchange]]

\* what getFundingRates returns when the venue answers with quotes q, the
\* call having started at time t
FundingRates(listing, exchange, q, t, periodHours) ==
    [i \in 1..Len(listing) |->
        [symbol |-> listing[i], exchange |-> exchange, rate |-> q[i],
         timestamp |-> t, periodHours |-> periodHours]]

\* what getAllData resolves to for one venue: getTradeableCoins and
\* getFundingRates each catch every error (a timeout included) and then
\* return [], so a venue that cannot be reached yields two empty lists
VenueFailed == [coins |-> <<>>, fundingRates |-> <<>>]

LighterData(t) ==
    {VenueFailed} \cup
    {[coins |-> Coins(LighterListing, "lighter"),
      fundingRates |-> FundingRates(LighterListing, "lighter", q, t, 8)] : q \in LighterQuotes}

HyperliquidData(t) ==
    {VenueFailed} \cup
    {[coins |-> Coins(HyperliquidListing, "hyperliquid"),
      fundingRates |-> FundingRates(HyperliquidListing, "hyperliquid", q, t, 1)] :
        q \in HyperliquidQuotes}

\* a venue whose two fetches both failed / both succeeded
VenueDown(data) == data.coins = <<>> /\ data.fundingRates = <<>>

VenueUp(data) == data.coins # <<>> /\ data.fundingRates # <<>>

\* the funding history a venue may hold for one coin when asked at time t
HistoryChoices(t, exchange, periodHours) ==
    {<<>>,
     <<[exchange |-> exchange, rate |-> 8, timestamp |-> t - 3600, periodHours |-> periodHours]>>}

\* a world: per venue, the history its client returns for each coin it
\* knows (here the same for every coin of the venue)
HistoryWorlds(t) ==
    {[hl |-> [c \in {BTC, kPEPE, DORMANT} |-> h], lt |-> [c \in {BTC, PEPE1000, DORMANT} |-> l]] :
        h \in HistoryChoices(t, "hyperliquid", 1), l \in HistoryChoices(t, "lighter", 8)}

\* getFundingHistory of a client: [] for a coin the venue does not know
upstreamHistory(known, coin) == IF coin \in DOMAIN known THEN known[coin] ELSE <<>>

\* the Promise.all of the two getFundingHistory calls, per symbol
fetchHistories(symbols, world) ==
    [i \in 1..Len(symbols) |->
        [hl |-> upstreamHistory(world.hl, historyLighterToHyperliquidSymbol(symbols[i])),
         lt |-> upstreamHistory(world.lt, toUpperCase(symbols[i]))]]


(***************************************************************************)
(* State of routes/opportunities.ts and of the services it owns.           *)
(***************************************************************************)
VARIABLES
    now,                    \* Date.now()
    ticks,                  \* how often the clock has advanced
    nextTimer,              \* when setInterval(refreshOpportunities) is due next
    nextId,                 \* number of the next refreshOpportunities invocation
    cachedOpportunities,    \* period -> ArbitrageOpportunity[]
    cachedCoins,            \* [lighter, hyperliquid]
    lastUpdate,
    lastHistoricalUpdate,
    ratesCache,             \* HistoricalFundingService.ratesCache
    refreshes,              \* refreshOpportunities invocations awaiting allSettled
    hists,                  \* refreshHistoricalData invocations awaiting averages
    readers,                \* GET handlers awaiting refreshOpportunities
    out,                    \* what the last step sent: a response, a broadcast, or nothing
    writer,                 \* history: which invocation wrote each cached field
    calc                    \* the calculator pipeline run on drawn inputs

vars == <<now, ticks, nextTimer, nextId, cachedOpportunities, cachedCoins, lastUpdate,
          lastHistoricalUpdate, ratesCache, refreshes, hists, readers, out, writer, calc>>

orchVars == <<now, ticks, nextTimer, nextId, cachedOpportunities, cachedCoins, lastUpdate,
              lastHistoricalUpdate, ratesCache, refreshes, hists, readers, out, writer>>

Periods == {"realtime", "7d", "30d", "ytd"}

Routes == {"opportunities", "coins"}

RatesKeys == {"rates-7d", "rates-30d"}

StartTime == YearStart + StartOffset

NoOut == [type |-> "none"]

NoEntry == [present |-> FALSE, data |-> EmptyRates, timestamp |-> 0]

CalcOff == [pc |-> "off"]

\* the clock advances by half a realtime TTL
TickSteps == {CACHE_TTL \div 2}

InitOrchestrator ==
    /\ now = StartTime
    /\ ticks = 0
    /\ nextTimer = StartTime + CACHE_TTL
    /\ nextId = 2
    /\ cachedOpportunities = [p \in Periods |-> <<>>]
    /\ cachedCoins = [lighter |-> <<>>, hyperliquid |-> <<>>]
    /\ lastUpdate = 0
    /\ lastHistoricalUpdate = 0
    /\ ratesCache = [k \in RatesKeys |-> NoEntry]
    /\ refreshes = {[id |-> 1, startedAt |-> StartTime]}
    /\ hists = {}
    /\ readers = {}
    /\ out = NoOut
    /\ writer = [coins |-> 0, realtime |-> 0, lastUpdate |-> 0, d7 |-> 0, d30 |-> 0]

Init == InitOrchestrator /\ calc = CalcOff

\* a staleness test with a quarter of the TTL
IsStaleShortTtl(t, last) == t - last > CACHE_TTL \div 4

\* `Date.now() - lastUpdate > CACHE_TTL` of the two GET handlers
IsStale(t, last) == t - last > CACHE_TTL

\* `Date.now() - lastHistoricalUpdate > HISTORICAL_CACHE_TTL`
IsHistoricalStale(t, last) == t - last > HISTORICAL_CACHE_TTL

\* a call of refreshOpportunities up to its await
CanStartRefresh == nextId <= MaxRefreshes

StartRefresh ==
    /\ refreshes' = refreshes \cup {[id |-> nextId, startedAt |-> now]}
    /\ nextId' = nextId + 1

Tick(d) ==
    /\ ticks < MaxTicks
    /\ now' = now + d
    /\ ticks' = ticks + 1
    /\ out' = NoOut
    /\ UNCHANGED <<nextTimer, nextId, cachedOpportunities, cachedCoins, lastUpdate,
                   lastHistoricalUpdate, ratesCache, refreshes, hists, readers, writer, calc>>

\* setInterval(refreshOpportunities, CACHE_TTL)
TimerTick ==
    /\ now >= nextTimer
    /\ CanStartRefresh
    /\ StartRefresh
    /\ nextTimer' = now + CACHE_TTL
    /\ out' = NoOut
    /\ UNCHANGED <<now, ticks, cachedOpportunities, cachedCoins, lastUpdate,
                   lastHistoricalUpdate, ratesCache, hists, readers, writer, calc>>

\* a response whose availability flags are taken from the other venue
ResponseBodyFlagsSwapped(route) ==
    IF route = "opportunities"
    THEN [opportunities |-> cachedOpportunities,
          lastUpdated |-> lastUpdate,
          lighterAvailable |-> Len(cachedCoins.hyperliquid) > 0,
          hyperliquidAvailable |-> Len(cachedCoins.lighter) > 0]
    ELSE [lighter |-> cachedCoins.lighter,
          hyperliquid |-> cachedCoins.hyperliquid,
          lastUpdated |-> lastUpdate]

\* res.json(...) of a GET handler
ResponseBody(route) ==
    IF route = "opportunities"
    THEN [opportunities |-> cachedOpportunities,
          lastUpdated |-> lastUpdate,
          lighterAvailable |-> Len(cachedCoins.lighter) > 0,
          hyperliquidAvailable |-> Len(cachedCoins.hyperliquid) > 0]
    ELSE [lighter |-> cachedCoins.lighter,
          hyperliquid |-> cachedCoins.hyperliquid,
          lastUpdated |-> lastUpdate]

Response(route, awaited) ==
    [type |-> "response", route |-> route, status |-> 200, body |-> ResponseBody(route),
     awaited |-> awaited, observed |-> writer]

\* router.get('/opportunities') and router.get('/coins') up to the response
\* or to the await
Get(route) ==
    IF IsStale(now, lastUpdate)
    THEN /\ CanStartRefresh
         /\ StartRefresh
         /\ readers' = readers \cup {[route |-> route, awaiting |-> nextId]}
         /\ out' = NoOut
         /\ UNCHANGED <<now, ticks, nextTimer, cachedOpportunities, cachedCoins, lastUpdate,
                        lastHistoricalUpdate, ratesCache, hists, writer, calc>>
    ELSE /\ out' = Response(route, 0)
         /\ UNCHANGED <<now, ticks, nextTimer, nextId, cachedOpportunities, cachedCoins,
                        lastUpdate, lastHistoricalUpdate, ratesCache, refreshes, hists,
                        readers, writer, calc>>

\* a GET handler resumes once the refresh it awaits has returned
ReaderResume(rd) ==
    /\ rd \in readers
    /\ \A r \in refreshes : r.id # rd.awaiting
    /\ readers' = readers \ {rd}
    /\ out' = Response(rd.route, rd.awaiting)
    /\ UNCHANGED <<now, ticks, nextTimer, nextId, cachedOpportunities, cachedCoins,
                   lastUpdate, lastHistoricalUpdate, ratesCache, refreshes, hists, writer, calc>>

\* getAverageRatesForPeriod up to its first await: the cache test
ratesCall(period, cache) ==
    LET entry == cache[IF period = "7d" THEN "rates-7d" ELSE "rates-30d"]
    IN  [period |-> period, callTime |-> now, hit |-> RatesCacheValid(entry, now),
         data |-> IF RatesCacheValid(entry, now) THEN entry.data ELSE EmptyRates]

\* what a getAverageRatesForPeriod call resolves to
ratesResult(call, symbols, world) ==
    IF call.hit THEN call.data
    ELSE fetchAverageRates(symbols, call.period, call.callTime, fetchHistories(symbols, world))

\* this.ratesCache.set(cacheKey, {data: result, timestamp: now})
ratesCacheAfter(cache, call, result) ==
    IF call.hit THEN cache
    ELSE [cache EXCEPT ![IF call.period = "7d" THEN "rates-7d" ELSE "rates-30d"] =
              [present |-> TRUE, data |-> result, timestamp |-> call.callTime]]

\* refreshHistoricalData up to its first await
startHistorical(id, realtimeOpportunities) ==
    [id |-> id, symbols |-> opportunitySymbols(realtimeOpportunities), now |-> now,
     call |-> ratesCall("7d", ratesCache), rates7d |-> EmptyRates]

\* a refreshOpportunities that starts the historical refresh whatever the
\* length of the realtime list
RefreshCompleteAnyList(r, lighterData, hyperliquidData) ==
    LET realtimeOpportunities ==
            calculateOpportunities(lighterData.fundingRates, hyperliquidData.fundingRates)
        background == IsHistoricalStale(now, lastHistoricalUpdate)
    IN  /\ r \in refreshes
        /\ refreshes' = refreshes \ {r}
        /\ cachedCoins' = [lighter |-> lighterData.coins, hyperliquid |-> hyperliquidData.coins]
        /\ cachedOpportunities' = [cachedOpportunities EXCEPT !["realtime"] = realtimeOpportunities]
        /\ lastUpdate' = now
        /\ writer' = [writer EXCEPT !.coins = r.id, !.realtime = r.id, !.lastUpdate = r.id]
        /\ IF background
           THEN /\ hists' = hists \cup {startHistorical(r.id, realtimeOpportunities)}
                /\ lastHistoricalUpdate' = now
           ELSE UNCHANGED <<hists, lastHistoricalUpdate>>
        /\ out' = NoOut
        /\ UNCHANGED <<now, ticks, nextTimer, nextId, ratesCache, readers, calc>>

\* a refreshOpportunities that publishes the list and the coins but leaves
\* lastUpdate to a later step
RefreshCompleteTimestampLater(r, lighterData, hyperliquidData) ==
    LET realtimeOpportunities ==
            calculateOpportunities(lighterData.fundingRates, hyperliquidData.fundingRates)
        background == IsHistoricalStale(now, lastHistoricalUpdate)
                         /\ Len(realtimeOpportunities) > 0
    IN  /\ r \in refreshes
        /\ refreshes' = refreshes \ {r}
        /\ cachedCoins' = [lighter |-> lighterData.coins, hyperliquid |-> hyperliquidData.coins]
        /\ cachedOpportunities' = [cachedOpportunities EXCEPT !["realtime"] = realtimeOpportunities]
        /\ writer' = [writer EXCEPT !.coins = r.id, !.realtime = r.id]
        /\ IF background
           THEN /\ hists' = hists \cup {startHistorical(r.id, realtimeOpportunities)}
                /\ lastHistoricalUpdate' = now
           ELSE UNCHANGED <<hists, lastHistoricalUpdate>>
        /\ out' = NoOut
        /\ UNCHANGED <<now, ticks, nextTimer, nextId, lastUpdate, ratesCache, readers, calc>>

\* refreshOpportunities from the return of Promise.allSettled to its end
RefreshComplete(r, lighterData, hyperliquidData) ==
    LET realtimeOpportunities ==
            calculateOpportunities(lighterData.fundingRates, hyperliquidData.fundingRates)
        background == IsHistoricalStale(now, lastHistoricalUpdate)
                         /\ Len(realtimeOpportunities) > 0
    IN  /\ r \in refreshes
        /\ refreshes' = refreshes \ {r}
        /\ cachedCoins' = [lighter |-> lighterData.coins, hyperliquid |-> hyperliquidData.coins]
        /\ cachedOpportunities' = [cachedOpportunities EXCEPT !["realtime"] = realtimeOpportunities]
        /\ lastUpdate' = now
        /\ writer' = [writer EXCEPT !.coins = r.id, !.realtime = r.id, !.lastUpdate = r.id]
        /\ IF background
           THEN /\ hists' = hists \cup {startHistorical(r.id, realtimeOpportunities)}
                /\ lastHistoricalUpdate' = now
           ELSE UNCHANGED <<hists, lastHistoricalUpdate>>
        /\ out' = NoOut
        /\ UNCHANGED <<now, ticks, nextTimer, nextId, ratesCache, readers, calc>>

\* refreshHistoricalData from the return of the 7d averages to the next await
Hist7dDone(h, world) ==
    LET rates7d == ratesResult(h.call, h.symbols, world)
        cache == ratesCacheAfter(ratesCache, h.call, rates7d)
    IN  /\ h \in hists
        /\ h.call.period = "7d"
        /\ ratesCache' = cache
        /\ hists' = (hists \ {h}) \cup
                        {[h EXCEPT !.rates7d = rates7d, !.call = ratesCall("30d", cache)]}
        /\ out' = NoOut
        /\ UNCHANGED <<now, ticks, nextTimer, nextId, cachedOpportunities, cachedCoins,
                       lastUpdate, lastHistoricalUpdate, refreshes, readers, writer, calc>>

\* a refreshHistoricalData that files the 30d result under ytd as well
Hist30dDoneYtdFilled(h, world) ==
    LET rates30d == ratesResult(h.call, h.symbols, world)
    IN  /\ h \in hists
        /\ h.call.period = "30d"
        /\ ratesCache' = ratesCacheAfter(ratesCache, h.call, rates30d)
        /\ hists' = hists \ {h}
        /\ cachedOpportunities' =
              [cachedOpportunities EXCEPT
                  !["7d"] = periodOpportunities(h.symbols, h.rates7d, h.now),
                  !["30d"] = periodOpportunities(h.symbols, rates30d, h.now),
                  !["ytd"] = periodOpportunities(h.symbols, rates30d, h.now)]
        /\ writer' = [writer EXCEPT !.d7 = h.id, !.d30 = h.id]
        /\ out' = NoOut
        /\ UNCHANGED <<now, ticks, nextTimer, nextId, cachedCoins, lastUpdate,
                       lastHistoricalUpdate, refreshes, readers, calc>>

\* refreshHistoricalData from the return of the 30d averages to its end
Hist30dDone(h, world) ==
    LET rates30d == ratesResult(h.call, h.symbols, world)
    IN  /\ h \in hists
        /\ h.call.period = "30d"
        /\ ratesCache' = ratesCacheAfter(ratesCache, h.call, rates30d)
        /\ hists' = hists \ {h}
        /\ cachedOpportunities' =
              [cachedOpportunities EXCEPT
                  !["7d"] = periodOpportunities(h.symbols, h.rates7d, h.now),
                  !["30d"] = periodOpportunities(h.symbols, rates30d, h.now),
                  !["ytd"] = <<>>]
        /\ writer' = [writer EXCEPT !.d7 = h.id, !.d30 = h.id]
        /\ out' = NoOut
        /\ UNCHANGED <<now, ticks, nextTimer, nextId, cachedCoins, lastUpdate,
                       lastHistoricalUpdate, refreshes, readers, calc>>

\* a broadcaster that refreshes a stale cache before it publishes
BroadcastRefreshing ==
    /\ out' = [type |-> "broadcast", data |-> cachedOpportunities, timestamp |-> now,
               observed |-> writer]
    /\ IF IsStale(now, lastUpdate) /\ CanStartRefresh
       THEN StartRefresh
       ELSE UNCHANGED <<nextId, refreshes>>
    /\ UNCHANGED <<now, ticks, nextTimer, cachedOpportunities, cachedCoins,
                   lastUpdate, lastHistoricalUpdate, ratesCache, hists,
                   readers, writer, calc>>

\* the broadcaster's interval callback: getCachedOpportunities, broadcastOpportunities
Broadcast ==
    /\ out' = [type |-> "broadcast", data |-> cachedOpportunities, timestamp |-> now,
               observed |-> writer]
    /\ UNCHANGED <<now, ticks, nextTimer, nextId, cachedOpportunities, cachedCoins,
                   lastUpdate, lastHistoricalUpdate, ratesCache, refreshes, hists,
                   readers, writer, calc>>

Next ==
    \/ \E d \in TickSteps : Tick(d)
    \/ TimerTick
    \/ \E route \in Routes : Get(route)
    \/ \E rd \in readers : ReaderResume(rd)
    \/ \E r \in refreshes :
          \E lighterData \in LighterData(r.startedAt) :
             \E hyperliquidData \in HyperliquidData(r.startedAt) :
                RefreshComplete(r, lighterData, hyperliquidData)
    \/ \E h \in hists : \E world \in HistoryWorlds(now) : Hist7dDone(h, world)
    \/ \E h \in hists : \E world \in HistoryWorlds(now) : Hist30dDone(h, world)
    \/ Broadcast

Spec == Init /\ [][Next]_vars

(***************************************************************************)
(* The calculator on drawn inputs: calculateOpportunities applied to every *)
(* pair of rate lists over two instruments, each rate negative, zero or    *)
(* positive, each periodHours present or absent (0).                       *)
(***************************************************************************)
CalcRates == {-8, 0, 8}

\* with the unit of rate at 0.00001: 0.0001 per period on Lighter, 0.00002 on
\* Hyperliquid
CalcLighterRates == CalcRates \cup {10}

CalcHyperliquidRates == CalcRates \cup {2}

CalcLighterListing == <<BTC, PEPE1000>>

CalcHyperliquidListing == <<BTC, KPEPE>>

CalcRateLists(listing, exchange, rates, periods) ==
    {[i \in 1..Len(listing) |->
        [symbol |-> listing[i], exchange |-> exchange, rate |-> q[i],
         timestamp |-> StartTime, periodHours |-> p[i]]] :
        q \in [1..Len(listing) -> rates], p \in [1..Len(listing) -> periods]}

\* a Map<string, number> of hourly rates made of a rate list
HourlyMap(rates, defaultPeriod) ==
    [i \in 1..Len(rates) |->
        [key |-> rates[i].symbol,
         val |-> normalizeToHourly(rates[i].rate, OrDefault(rates[i].periodHours, defaultPeriod))]]

InitCalc ==
    /\ InitOrchestrator
    /\ calc \in {[pc |-> "input", lighterRates |-> l, hyperliquidRates |-> h, result |-> <<>>] :
                    l \in CalcRateLists(CalcLighterListing, "lighter", CalcLighterRates, {0, 8}),
                    h \in CalcRateLists(CalcHyperliquidListing, "hyperliquid",
                                        CalcHyperliquidRates, {0, 1, 8})}

\* OpportunityCalculator.calculateOpportunities(lighterRates, hyperliquidRates)
CalcRealtime ==
    /\ calc.pc = "input"
    /\ calc' = [calc EXCEPT !.pc = "realtime",
                            !.result = calculateOpportunities(calc.lighterRates,
                                                              calc.hyperliquidRates)]
    /\ UNCHANGED orchVars

\* OpportunityCalculator.calculateOpportunitiesFromRates on the hourly rates
\* of the same lists, without data start dates
CalcFromRates ==
    /\ calc.pc = "input"
    /\ calc' = [calc EXCEPT !.pc = "rates",
                            !.result = calculateOpportunitiesFromRates(
                                           HourlyMap(calc.lighterRates, 8),
                                           HourlyMap(calc.hyperliquidRates, 1),
                                           StartTime, <<>>)]
    /\ UNCHANGED orchVars

NextCalc == CalcRealtime \/ CalcFromRates

SpecCalc == InitCalc /\ [][NextCalc]_vars

(***************************************************************************)
(* The symbol matching of calculateOpportunities on drawn listings: each   *)
(* exchange returns up to three of its symbols, in any order; every rate   *)
(* is nonzero and tells which entry it came from.                          *)
(***************************************************************************)
MaxListed == 3

btc == <<"b">>

MatchLighterRate(symbol) == IF symbol = btc THEN 16 ELSE 8

MatchHyperliquidRate(symbol) ==
    CASE symbol = BTC -> 8
      [] symbol = PEPE1000 -> 16
      [] OTHER -> 24

\* the sequences without repetition of at most MaxListed symbols of a universe
Listings(universe) ==
    {l \in UNION {[1..k -> universe] : k \in 0..MaxListed} :
        \A i, j \in 1..Len(l) : i # j => l[i] # l[j]}

MatchLighterLists ==
    {[i \in 1..Len(l) |->
        [symbol |-> l[i], exchange |-> "lighter", rate |-> MatchLighterRate(l[i]),
         timestamp |-> StartTime, periodHours |-> 8]] :
        l \in Listings({BTC, btc, PEPE1000, KPEPE})}

MatchHyperliquidLists ==
    {[i \in 1..Len(l) |->
        [symbol |-> l[i], exchange |-> "hyperliquid", rate |-> MatchHyperliquidRate(l[i]),
         timestamp |-> StartTime, periodHours |-> 1]] :
        l \in Listings({BTC, PEPE1000, KPEPE})}

InitMatch ==
    /\ InitOrchestrator
    /\ calc \in {[pc |-> "listed", lighterRates |-> l, hyperliquidRates |-> h, result |-> <<>>] :
                    l \in MatchLighterLists, h \in MatchHyperliquidLists}

\* OpportunityCalculator.calculateOpportunities(lighterRates, hyperliquidRates)
MatchRealtime ==
    /\ calc.pc = "listed"
    /\ calc' = [calc EXCEPT !.pc = "matched",
                            !.result = calculateOpportunities(calc.lighterRates,
                                                              calc.hyperliquidRates)]
    /\ UNCHANGED orchVars

NextMatch == MatchRealtime

SpecMatch == InitMatch /\ [][NextMatch]_vars

(***************************************************************************)
(* The historical aggregation on drawn histories: one instrument whose two *)
(* histories are drawn, next to one that both exchanges always report.     *)
(***************************************************************************)
Day == 24 * 60 * 60

MaxEntries == 2

\* the clock readings: early in the year (every window is cut at the start
\* of the year), ten days in (only the 30d window is cut) and later
HistNows == {YearStart + 3 * Day, YearStart + 10 * Day, YearStart + 40 * Day}

\* the entries an exchange may report for the drawn instrument, as
\* <<age, rate, periodHours>>: inside and outside each window, before the
\* start of the year and ahead of the clock
HistCandidates == <<
    <<Day, 8, 8>>, <<2 * Day, 16, 1>>, <<8 * Day, 8, 8>>, <<31 * Day, 8, 1>>,
    <<0 - Day, 8, 8>> >>

RECURSIVE HistoryOf(_, _, _, _)
HistoryOf(picked, exchange, at, i) ==
    IF i > Len(HistCandidates) THEN <<>>
    ELSE (IF i \in picked
          THEN <<[exchange |-> exchange, rate |-> HistCandidates[i][2],
                  timestamp |-> at - HistCandidates[i][1],
                  periodHours |-> HistCandidates[i][3]]>>
          ELSE <<>>) \o HistoryOf(picked, exchange, at, i + 1)

Histories(exchange, at) ==
    {HistoryOf(picked, exchange, at, 1) :
        picked \in {q \in SUBSET (1..Len(HistCandidates)) : Cardinality(q) <= MaxEntries}}

\* the instrument both exchanges always report inside every window
SteadyHistory(exchange, at) ==
    <<[exchange |-> exchange, rate |-> 8, timestamp |-> at - Day, periodHours |-> 8]>>

HistSymbols == <<BTC, PEPE1000>>

HistFetched(c) ==
    <<[hl |-> c.hl, lt |-> c.lt],
      [hl |-> SteadyHistory("hyperliquid", c.now), lt |-> SteadyHistory("lighter", c.now)]>>

InitHist ==
    /\ InitOrchestrator
    /\ calc \in UNION {
          {[pc |-> "fetched", period |-> p, now |-> t, hl |-> h, lt |-> l,
            range |-> [startTime |-> 0, endTime |-> 0], rates |-> EmptyRates,
            result |-> <<>>, longExchange |-> "none",
            aprs |-> [apr7d |-> UndefinedAPR, apr30d |-> UndefinedAPR,
                      aprYtd |-> UndefinedAPR]] :
              p \in {"7d", "30d", "ytd"},
              h \in Histories("hyperliquid", t), l \in Histories("lighter", t)} :
          t \in HistNows}

\* an uncached getAverageRatesForPeriod followed by the bucket computation
\* of refreshHistoricalData
HistAverage ==
    /\ calc.pc = "fetched"
    /\ LET rates == fetchAverageRates(HistSymbols, calc.period, calc.now, HistFetched(calc))
       IN  calc' = [calc EXCEPT !.pc = "averaged",
                                !.range = getPeriodRange(calc.period, calc.now),
                                !.rates = rates,
                                !.result = periodOpportunities(HistSymbols, rates, calc.now)]
    /\ UNCHANGED orchVars

\* fetchHistoricalAPRs(symbol, longExchange) for the drawn instrument
HistAPRs ==
    /\ calc.pc = "fetched"
    /\ \E longExchange \in {"hyperliquid", "lighter"} :
          calc' = [calc EXCEPT !.pc = "aprs",
                               !.longExchange = longExchange,
                               !.aprs = fetchHistoricalAPRs(calc.hl, calc.lt,
                                                            longExchange, calc.now)]
    /\ UNCHANGED orchVars

NextHist == HistAverage \/ HistAPRs

SpecHist == InitHist /\ [][NextHist]_vars

(***************************************************************************)
(* A historical batch in which single fetches fail.                        *)
(***************************************************************************)
BatchSymbols == <<BTC, PEPE1000, DORMANT>>

\* how one getFundingHistory call ends: with entries, with none, or with a
\* failed request
FetchOutcomes == {"entries", "none", "failed"}

\* getFundingHistory of either client: every failure is caught and answered
\* with []
getFundingHistory(outcome, exchange, at) ==
    IF outcome = "entries" THEN SteadyHistory(exchange, at) ELSE <<>>

BatchFetched(outcomes, at) ==
    [i \in 1..Len(outcomes) |->
        [hl |-> getFundingHistory(outcomes[i].hl, "hyperliquid", at),
         lt |-> getFundingHistory(outcomes[i].lt, "lighter", at)]]

InitBatch ==
    /\ InitOrchestrator
    /\ calc \in {[pc |-> "batch", period |-> p, now |-> YearStart + 40 * Day,
                  outcomes |-> o, rates |-> EmptyRates, result |-> <<>>] :
                    p \in {"7d", "30d"},
                    o \in [1..Len(BatchSymbols) -> [hl : FetchOutcomes, lt : FetchOutcomes]]}

\* an uncached getAverageRatesForPeriod over the batch, followed by the
\* bucket computation of refreshHistoricalData
BatchAverage ==
    /\ calc.pc = "batch"
    /\ LET rates == fetchAverageRates(BatchSymbols, calc.period, calc.now,
                                      BatchFetched(calc.outcomes, calc.now))
       IN  calc' = [calc EXCEPT !.pc = "batched",
                                !.rates = rates,
                                !.result = periodOpportunities(BatchSymbols, rates, calc.now)]
    /\ UNCHANGED orchVars

NextBatch == BatchAverage

SpecBatch == InitBatch /\ [][NextBatch]_vars

(***************************************************************************)
(* WebSocketService: the subscriber set and one broadcast.                 *)
(***************************************************************************)
MaxSockets == 3

Sockets == 1..MaxSockets

\* a broadcast in which the first send that throws is not caught
RECURSIVE BroadcastLoopUncaught(_, _, _, _, _, _, _)
BroadcastLoopUncaught(order, readyState, failing, i, members, delivered, threw) ==
    IF i > Len(order) THEN [members |-> members, delivered |-> delivered, threw |-> threw]
    ELSE LET client == order[i]
         IN  IF readyState[client] = "OPEN"
             THEN IF client \in failing
                  THEN [members |-> members, delivered |-> delivered,
                        threw |-> threw \cup {client}]
                  ELSE BroadcastLoopUncaught(order, readyState, failing, i + 1, members,
                                             delivered \cup {client}, threw)
             ELSE BroadcastLoopUncaught(order, readyState, failing, i + 1, members,
                                        delivered, threw)

\* this.clients.forEach(...) of broadcastOpportunities, from the i-th client
\* of the set's insertion order on; failing holds the sockets whose send
\* throws
RECURSIVE BroadcastLoop(_, _, _, _, _, _, _)
BroadcastLoop(order, readyState, failing, i, members, delivered, threw) ==
    IF i > Len(order) THEN [members |-> members, delivered |-> delivered, threw |-> threw]
    ELSE LET client == order[i]
         IN  IF readyState[client] = "OPEN"
             THEN IF client \in failing
                  THEN BroadcastLoop(order, readyState, failing, i + 1,
                                     members \ {client}, delivered, threw \cup {client})
                  ELSE BroadcastLoop(order, readyState, failing, i + 1, members,
                                     delivered \cup {client}, threw)
             ELSE BroadcastLoop(order, readyState, failing, i + 1, members,
                                delivered, threw)

SetDelete(order, client) == SelectSeq(order, LAMBDA c : c # client)

InitWs ==
    /\ InitOrchestrator
    /\ calc = [pc |-> "ws", clients |-> <<>>,
               readyState |-> [c \in Sockets |-> "CONNECTING"],
               last |-> "none", delivered |-> {}, threw |-> {}]

\* wss.on('connection'): this.clients.add(ws)
WsConnection(client) ==
    /\ calc.pc = "ws"
    /\ calc.readyState[client] = "CONNECTING"
    /\ calc' = [calc EXCEPT !.clients = Append(calc.clients, client),
                            !.readyState[client] = "OPEN",
                            !.last = "connection", !.delivered = {}, !.threw = {}]
    /\ UNCHANGED orchVars

\* the closing handshake of a socket has begun; its 'close' event is still
\* to come
WsClosing(client) ==
    /\ calc.pc = "ws"
    /\ calc.readyState[client] = "OPEN"
    /\ calc' = [calc EXCEPT !.readyState[client] = "CLOSING",
                            !.last = "closing", !.delivered = {}, !.threw = {}]
    /\ UNCHANGED orchVars

\* ws.on('close'): this.clients.delete(ws)
WsClose(client) ==
    /\ calc.pc = "ws"
    /\ calc.readyState[client] \in {"OPEN", "CLOSING"}
    /\ calc' = [calc EXCEPT !.clients = SetDelete(calc.clients, client),
                            !.readyState[client] = "CLOSED",
                            !.last = "close", !.delivered = {}, !.threw = {}]
    /\ UNCHANGED orchVars

\* ws.on('error'): this.clients.delete(ws)
WsError(client) ==
    /\ calc.pc = "ws"
    /\ calc.readyState[client] \in {"OPEN", "CLOSING"}
    /\ calc' = [calc EXCEPT !.clients = SetDelete(calc.clients, client),
                            !.last = "error", !.delivered = {}, !.threw = {}]
    /\ UNCHANGED orchVars

\* broadcastOpportunities(opportunities)
WsBroadcast(failing) ==
    /\ calc.pc = "ws"
    /\ LET done == BroadcastLoop(calc.clients, calc.readyState, failing, 1,
                                 {calc.clients[i] : i \in 1..Len(calc.clients)}, {}, {})
       IN  calc' = [calc EXCEPT !.clients = SelectSeq(calc.clients,
                                                      LAMBDA c : c \in done.members),
                                !.last = "broadcast",
                                !.delivered = done.delivered,
                                !.threw = done.threw]
    /\ UNCHANGED orchVars

NextWs ==
    \/ \E client \in Sockets : WsConnection(client)
    \/ \E client \in Sockets : WsClosing(client)
    \/ \E client \in Sockets : WsClose(client)
    \/ \E client \in Sockets : WsError(client)
    \/ \E failing \in SUBSET Sockets : WsBroadcast(failing)

SpecWs == InitWs /\ [][NextWs]_vars

(***************************************************************************)
(* The orchestrator with no readers, over a stretch of MaxTimerTicks timer *)
(* periods, with the scheduling the runtime provides: the clock advances,  *)
(* a due timer fires, and every venue call ends (each request carries a    *)
(* timeout).                                                               *)
(***************************************************************************)
MaxTimerTicks == 2

LiveEnd == StartTime + MaxTimerTicks * CACHE_TTL

\* the clock readings of the stretch
LiveTimes == {StartTime + k * (CACHE_TTL \div 2) : k \in 0..(2 * MaxTimerTicks)}

\* time passes, up to the moment the interval timer is due
ClockAdvance(d) ==
    /\ now + d <= nextTimer
    /\ now + d <= LiveEnd
    /\ now' = now + d
    /\ ticks' = ticks + 1
    /\ out' = NoOut
    /\ UNCHANGED <<nextTimer, nextId, cachedOpportunities, cachedCoins, lastUpdate,
                   lastHistoricalUpdate, ratesCache, refreshes, hists, readers, writer, calc>>

\* an interval timer that is re-armed without calling refreshOpportunities
IntervalElapsedIdle ==
    /\ now >= nextTimer
    /\ nextTimer' = now + CACHE_TTL
    /\ out' = NoOut
    /\ UNCHANGED <<now, ticks, nextId, refreshes, cachedOpportunities, cachedCoins,
                   lastUpdate, lastHistoricalUpdate, ratesCache, hists, readers, writer, calc>>

\* setInterval(refreshOpportunities, CACHE_TTL): the timer is due
IntervalElapsed ==
    /\ now >= nextTimer
    /\ StartRefresh
    /\ nextTimer' = now + CACHE_TTL
    /\ out' = NoOut
    /\ UNCHANGED <<now, ticks, cachedOpportunities, cachedCoins, lastUpdate,
                   lastHistoricalUpdate, ratesCache, hists, readers, writer, calc>>

\* the venues of the stretch: both answer or both fail
LiveVenues(t) ==
    {d \in LighterData(t) \X HyperliquidData(t) : VenueDown(d[1]) <=> VenueDown(d[2])}

\* the histories of the stretch: both exchanges hold entries
LiveWorlds(t) ==
    {w \in HistoryWorlds(t) : w.hl[BTC] # <<>> /\ w.lt[BTC] # <<>>}

RefreshReturns ==
    \E r \in refreshes :
       \E d \in LiveVenues(r.startedAt) : RefreshComplete(r, d[1], d[2])

HistoricalReturns ==
    \/ \E h \in hists : \E world \in LiveWorlds(now) : Hist7dDone(h, world)
    \/ \E h \in hists : \E world \in LiveWorlds(now) : Hist30dDone(h, world)

NextLive ==
    \/ \E d \in TickSteps : ClockAdvance(d)
    \/ IntervalElapsed
    \/ RefreshReturns
    \/ HistoricalReturns

SpecLive ==
    /\ Init
    /\ [][NextLive]_vars
    /\ WF_vars(\E d \in TickSteps : ClockAdvance(d))
    /\ WF_vars(IntervalElapsed)
    /\ WF_vars(RefreshReturns)

(***************************************************************************)
(* The orchestrator over more than one historical TTL: the clock advances  *)
(* by a little over half an hour at a time, so that a second historical    *)
(* refresh cycle falls due.                                                *)
(***************************************************************************)
CycleSteps == {HISTORICAL_CACHE_TTL \div 2 + 1}

NextCycle ==
    \/ \E d \in CycleSteps : Tick(d)
    \/ TimerTick
    \/ \E r \in refreshes :
          \E lighterData \in LighterData(r.startedAt) :
             \E hyperliquidData \in HyperliquidData(r.startedAt) :
                RefreshComplete(r, lighterData, hyperliquidData)
    \/ \E h \in hists : \E world \in HistoryWorlds(now) : Hist7dDone(h, world)
    \/ \E h \in hists : \E world \in HistoryWorlds(now) : Hist30dDone(h, world)

SpecCycle == Init /\ [][NextCycle]_vars

(***************************************************************************)
(* HyperliquidClient: makeRequest and rateLimit, for the calls that share  *)
(* one client: getAllData's getTradeableCoins and getFundingRates, which   *)
(* begin in the same turn of the event loop, and a getFundingHistory call  *)
(* of the historical service.  Times are in seconds.  A caller is idle,    *)
(* asleep in rateLimit ("limit"), awaiting axios.post ("post"), asleep     *)
(* after a 429 ("backoff") or finished ("done").                           *)
(***************************************************************************)
minRequestInterval == 2
DefaultRetries == 2
MaxRetries == 2
MaxClock == 1
MaxLatency == 1

Callers == {"getTradeableCoins", "getFundingRates", "getFundingHistory"}
ClientEnd == StartTime + MaxClock

\* what axios.post settles with: a response, or an error with a response
\* (422, 429) or without one (status 0: network error or timeout);
\* retryAfter is the retry-after header in seconds, -1 if absent
PostOutcomes ==
    {[status |-> 200, retryAfter |-> -1], [status |-> 422, retryAfter |-> -1],
     [status |-> 429, retryAfter |-> -1], [status |-> 429, retryAfter |-> 1],
     [status |-> 0, retryAfter |-> -1]}

\* last is the status the latest request settled with, -1 before any
IdleCaller == [pc |-> "idle", i |-> 0, retries |-> 0, wake |-> 0, sent |-> 0,
               last |-> -1, result |-> "none"]

\* axios.post is called: the request leaves, and settles within MaxLatency
sendRequest(st, c) ==
    [st EXCEPT !.posts = Append(@, st.clock),
               !.callers[c].pc = "post", !.callers[c].wake = st.clock + MaxLatency,
               !.callers[c].sent = @ + 1]

\* rateLimit up to its await, and on to axios.post when it does not sleep
rateLimit(st, c) ==
    LET timeSinceLastRequest == st.clock - st.lastRequestTime
    IN  IF timeSinceLastRequest < minRequestInterval
        THEN [st EXCEPT !.callers[c].pc = "limit",
                        !.callers[c].wake =
                            st.clock + (minRequestInterval - timeSinceLastRequest)]
        ELSE sendRequest([st EXCEPT !.lastRequestTime = st.clock], c)

\* a loop test that admits one attempt too many
loopContinuesInclusive(i, retries) == i <= retries

\* for (let i = 0; i < retries; i++)
loopContinues(i, retries) == i < retries

\* one evaluation of the loop test, and the body up to its first await
iteration(st, c) ==
    IF loopContinues(st.callers[c].i, st.callers[c].retries)
    THEN rateLimit(st, c)
    ELSE [st EXCEPT !.callers[c].pc = "done", !.callers[c].wake = 0,
                    !.callers[c].result = "Max retries exceeded"]

\* makeRequest(data, retries) up to its first await
makeRequest(st, c, retries) ==
    iteration([st EXCEPT !.callers[c] = [IdleCaller EXCEPT !.retries = retries]], c)

\* the wait after a 429
retryAfterOf(outcome, i) ==
    IF outcome.retryAfter # -1 THEN outcome.retryAfter ELSE (2 ^ i) * 2

InitClient ==
    /\ InitOrchestrator
    /\ calc = [pc |-> "client", clock |-> StartTime, lastRequestTime |-> 0,
               posts |-> <<>>, callers |-> [c \in Callers |-> IdleCaller]]

\* getAllData: Promise.all([getTradeableCoins(), getFundingRates()])
getAllData ==
    /\ calc.pc = "client"
    /\ calc.callers["getTradeableCoins"].pc = "idle"
    /\ calc.callers["getFundingRates"].pc = "idle"
    /\ calc' = makeRequest(makeRequest(calc, "getTradeableCoins", DefaultRetries),
                           "getFundingRates", DefaultRetries)
    /\ UNCHANGED orchVars

\* getFundingHistory: one makeRequest
HistoryRequest(retries) ==
    /\ calc.pc = "client"
    /\ calc.callers["getFundingHistory"].pc = "idle"
    /\ calc' = makeRequest(calc, "getFundingHistory", retries)
    /\ UNCHANGED orchVars

\* the setTimeout of rateLimit fires: this.lastRequestTime = Date.now()
LimitWake(c) ==
    /\ calc.pc = "client"
    /\ calc.callers[c].pc = "limit"
    /\ calc.clock >= calc.callers[c].wake
    /\ calc' = sendRequest([calc EXCEPT !.lastRequestTime = calc.clock], c)
    /\ UNCHANGED orchVars

\* axios.post settles
PostSettles(c, outcome) ==
    /\ calc.pc = "client"
    /\ calc.callers[c].pc = "post"
    /\ calc' =
         IF outcome.status = 200
         THEN [calc EXCEPT !.callers[c].pc = "done", !.callers[c].last = 200,
                           !.callers[c].wake = 0,
                           !.callers[c].result = "response"]
         ELSE IF outcome.status = 422
         THEN [calc EXCEPT !.callers[c].pc = "done", !.callers[c].last = 422,
                           !.callers[c].wake = 0,
                           !.callers[c].result = "Invalid request format"]
         ELSE IF outcome.status = 429
         THEN [calc EXCEPT !.callers[c].pc = "backoff", !.callers[c].last = 429,
                           !.callers[c].wake =
                               calc.clock + retryAfterOf(outcome, calc.callers[c].i)]
         ELSE [calc EXCEPT !.callers[c].pc = "done",
                           !.callers[c].last = outcome.status,
                           !.callers[c].wake = 0,
                           !.callers[c].result = "error"]
    /\ UNCHANGED orchVars

\* the setTimeout after a 429 fires: continue
BackoffWake(c) ==
    /\ calc.pc = "client"
    /\ calc.callers[c].pc = "backoff"
    /\ calc.clock >= calc.callers[c].wake
    /\ calc' = iteration([calc EXCEPT !.callers[c].i = @ + 1, !.callers[c].wake = 0], c)
    /\ UNCHANGED orchVars

\* a second passes, once every timer that is due has fired and every
\* request that is due has settled; calls begin no later than ClientEnd, and
\* the clock runs on while a timer or a request is pending
ClientTick ==
    /\ calc.pc = "client"
    /\ \A c \in Callers :
          calc.callers[c].pc \in {"limit", "post", "backoff"}
              => calc.callers[c].wake > calc.clock
    /\ \/ calc.clock < ClientEnd
       \/ \E c \in Callers : calc.callers[c].wake > calc.clock
    /\ calc' = [calc EXCEPT !.clock = @ + 1]
    /\ UNCHANGED orchVars

NextClient ==
    \/ getAllData
    \/ \E retries \in 0..MaxRetries : HistoryRequest(retries)
    \/ \E c \in Callers : LimitWake(c)
    \/ \E c \in Callers : \E outcome \in PostOutcomes : PostSettles(c, outcome)
    \/ \E c \in Callers : BackoffWake(c)
    \/ ClientTick

\* timers fire and axios.post settles (timeout: 10000)
SpecClient ==
    /\ InitClient
    /\ [][NextClient]_vars
    /\ WF_vars(ClientTick)
    /\ \A c \in Callers :
          /\ WF_vars(LimitWake(c))
          /\ WF_vars(BackoffWake(c))
          /\ WF_vars(\E outcome \in PostOutcomes : PostSettles(c, outcome))

(***************************************************************************)
(* Claims.                                                                 *)
(***************************************************************************)

\* C1: no two refreshOpportunities runs are ever in flight at the same time,
\* whatever the interleaving of the timer, the startup refresh and stale reads.
C1_NoTwoRefreshesInFlight == Cardinality(refreshes) <= 1

\* C2: a read that finds the realtime bucket stale while a refresh is already
\* in flight answers at once with the cached data: it starts no other fetch
\* and it does not wait.
C2_StaleReadDuringRefreshReturnsCached ==
    [][\A route \in Routes :
          (Get(route) /\ IsStale(now, lastUpdate) /\ refreshes # {})
             => (refreshes' = refreshes /\ readers' = readers
                    /\ out' = Response(route, 0))]_vars

\* C3: a realtime refresh whose upstream fetches all fail leaves the realtime
\* list (here a non-empty one) and lastUpdate as they were.
C3_FailedRefreshKeepsBucket ==
    [][\A r \in refreshes :
          (RefreshComplete(r, VenueFailed, VenueFailed)
              /\ cachedOpportunities["realtime"] # <<>>)
             => (cachedOpportunities'["realtime"] = cachedOpportunities["realtime"]
                    /\ lastUpdate' = lastUpdate)]_vars

\* C4: once a historical refresh has ended without data, the next realtime
\* refresh that is started afterwards and yields a non-empty list starts
\* another historical refresh, without waiting for the historical TTL.
C4_EmptyHistoricalIsRetried ==
    [][\A r \in refreshes :
          \A lighterData \in LighterData(r.startedAt) :
             \A hyperliquidData \in HyperliquidData(r.startedAt) :
                (/\ RefreshComplete(r, lighterData, hyperliquidData)
                 /\ writer.d7 # 0 /\ hists = {}
                 /\ cachedOpportunities["7d"] = <<>> /\ cachedOpportunities["30d"] = <<>>
                 /\ r.startedAt > lastHistoricalUpdate
                 /\ Len(cachedOpportunities'["realtime"]) > 0)
                   => hists' # {}]_vars

\* C5: when a refresh completes after a refresh that was started later has
\* already completed, its result is discarded: the realtime list and
\* lastUpdate stay those of the later refresh.
C5_SupersededResultDiscarded ==
    [][\A r \in refreshes :
          \A lighterData \in LighterData(r.startedAt) :
             \A hyperliquidData \in HyperliquidData(r.startedAt) :
                (RefreshComplete(r, lighterData, hyperliquidData) /\ writer.realtime > r.id)
                   => (/\ cachedOpportunities'["realtime"] = cachedOpportunities["realtime"]
                       /\ lastUpdate' = lastUpdate)]_vars

\* C6: every response and every broadcast sees the realtime list, lastUpdate
\* and the coins (the availability flags) of one and the same refresh, and
\* the 7d and 30d lists of one and the same historical refresh.
C6_BucketReplacedAtomically ==
    out.type \in {"response", "broadcast"}
       => (/\ out.observed.realtime = out.observed.lastUpdate
           /\ out.observed.coins = out.observed.realtime
           /\ out.observed.d7 = out.observed.d30)

C6_Witness ==
    /\ out.type \in {"response", "broadcast"}
    /\ out.observed.realtime = 2
    /\ out.observed.d7 = 1

\* C7: a read made while the realtime bucket is fresh (now - lastUpdate less
\* than 60 s) starts no fetch and answers with the cached data.
C7_FreshReadStartsNoFetch ==
    [][\A route \in Routes :
          (Get(route) /\ now - lastUpdate < CACHE_TTL)
             => (/\ refreshes' = refreshes
                 /\ nextId' = nextId
                 /\ readers' = readers
                 /\ out' = Response(route, 0))]_vars

C7_Witness ==
    /\ out.type = "response"
    /\ out.awaited = 0
    /\ out.body.lastUpdated = lastUpdate
    /\ lastUpdate # 0
    /\ now - lastUpdate > 0
    /\ now - lastUpdate < CACHE_TTL

\* C8: an instrument whose realtime hourly rate is 0 on both venues and whose
\* 30d history is present and nonzero on both venues is in the 30d bucket
\* after the historical refresh (DORMANT is quoted 0 by both venues).
C8_DormantShownInHistory ==
    [][\A h \in hists :
          \A world \in HistoryWorlds(now) :
             (/\ Hist30dDone(h, world)
              /\ ~h.call.hit
              /\ LET range == getPeriodRange("30d", h.call.callTime)
                     hl == InWindow(world.hl[DORMANT], range.startTime, range.endTime)
                     lt == InWindow(world.lt[DORMANT], range.startTime, range.endTime)
                 IN  /\ hl # <<>> /\ ~RatIsZero(AverageHourly(hl))
                     /\ lt # <<>> /\ ~RatIsZero(AverageHourly(lt)))
                => \E i \in 1..Len(cachedOpportunities'["30d"]) :
                      cachedOpportunities'["30d"][i].symbol = DORMANT]_vars

\* C9: after a realtime refresh in which one venue's fetches failed and the
\* other's succeeded, a read is answered at once with status 200, the failed
\* venue reported unavailable, the other available, and an empty realtime list.
C9_OneVenueDownResponse ==
    [][\A r \in refreshes :
          \A lighterData \in LighterData(r.startedAt) :
             \A hyperliquidData \in HyperliquidData(r.startedAt) :
                (/\ RefreshComplete(r, lighterData, hyperliquidData)
                 /\ \/ VenueDown(lighterData) /\ VenueUp(hyperliquidData)
                    \/ VenueUp(lighterData) /\ VenueDown(hyperliquidData))
                   => (/\ ~IsStale(now, lastUpdate)'
                       /\ Response("opportunities", 0)'.status = 200
                       /\ ResponseBody("opportunities")'.lighterAvailable = VenueUp(lighterData)
                       /\ ResponseBody("opportunities")'.hyperliquidAvailable = VenueUp(hyperliquidData)
                       /\ ResponseBody("opportunities")'.opportunities["realtime"] = <<>>)]_vars

C9_Witness ==
    /\ out.type = "response"
    /\ out.route = "opportunities"
    /\ out.status = 200
    /\ out.body.lastUpdated # 0
    /\ out.body.lighterAvailable = FALSE
    /\ out.body.hyperliquidAvailable = TRUE
    /\ out.body.opportunities["realtime"] = <<>>

\* C10: the realtime result never holds an instrument whose hourly rate is 0
\* on both exchanges, and always holds a matched instrument whose hourly
\* rate is 0 on exactly one exchange (the i-th rate of each list is the same
\* instrument: BTC/BTC, 1000PEPE/KPEPE).
C10_BothZeroSuppressedOnly ==
    calc.pc = "realtime"
       => \A i \in 1..Len(calc.lighterRates) :
             LET lighterRate == calc.lighterRates[i]
                 hyperliquidRate == calc.hyperliquidRates[i]
                 lighterHourly == normalizeToHourly(lighterRate.rate,
                                                    OrDefault(lighterRate.periodHours, 8))
                 hyperliquidHourly == normalizeToHourly(hyperliquidRate.rate,
                                                        OrDefault(hyperliquidRate.periodHours, 1))
                 listed == \E j \in 1..Len(calc.result) :
                              calc.result[j].symbol = lighterRate.symbol
             IN  /\ (RatIsZero(lighterHourly) /\ RatIsZero(hyperliquidHourly)) => ~listed
                 /\ (RatIsZero(lighterHourly) # RatIsZero(hyperliquidHourly)) => listed

C10_Witness ==
    /\ calc.pc = "realtime"
    /\ calc.lighterRates[1].rate = 0 /\ calc.hyperliquidRates[1].rate = 0
    /\ calc.lighterRates[2].rate = 0 /\ calc.hyperliquidRates[2].rate = 8
    /\ Len(calc.result) = 1
    /\ calc.result[1].symbol = PEPE1000

\* C11: every emitted opportunity, realtime or historical, has two different
\* venues as long and short side, a net APR that is not below that of the
\* opposite direction, and long Lighter / short Hyperliquid on a tie.
C11_LargerDirectionChosen ==
    calc.pc \in {"realtime", "rates"}
       => \A i \in 1..Len(calc.result) :
             LET opp == calc.result[i]
                 opposite == RatMul(RatSub(opp.longFundingRate, opp.shortFundingRate),
                                    RatInt(24 * 365 * 100))
             IN  /\ {opp.longExchange, opp.shortExchange} = {"lighter", "hyperliquid"}
                 /\ opp.netAPR.n * opposite.d >= opposite.n * opp.netAPR.d
                 /\ opp.netAPR = opposite => opp.longExchange = "lighter"

C11_Witness ==
    /\ calc.pc = "realtime"
    /\ Len(calc.result) = 2
    /\ calc.result[1].longExchange = "hyperliquid"
    /\ calc.result[2].longExchange = "lighter"
    /\ calc.result[2].longFundingRate = calc.result[2].shortFundingRate
    /\ calc.result[2].longFundingRate.n # 0

C14_OrderIndependentOfInput ==
    calc.pc = "realtime"
       => /\ \A i \in 1..(Len(calc.result) - 1) :
                calc.result[i].netAPR.n * calc.result[i + 1].netAPR.d
                   >= calc.result[i + 1].netAPR.n * calc.result[i].netAPR.d
          /\ calculateOpportunities(
                [i \in 1..Len(calc.lighterRates) |->
                    calc.lighterRates[Len(calc.lighterRates) + 1 - i]],
                calc.hyperliquidRates) = calc.result

\* C13: calculateOpportunities emits one opportunity for each Lighter symbol
\* that Hyperliquid lists exactly or through the 1000 -> K transform, none
\* for any other, and no instrument of either exchange backs two
\* opportunities of the same result.
C13_OneOpportunityPerInstrument ==
    calc.pc = "matched"
       => LET hlKeys == {toUpperCase(calc.hyperliquidRates[k].symbol) :
                            k \in 1..Len(calc.hyperliquidRates)}
              ltKeys == {toUpperCase(calc.lighterRates[k].symbol) :
                            k \in 1..Len(calc.lighterRates)}
              hlKeyOf(s) == IF s \in hlKeys THEN s ELSE lighterToHyperliquidSymbol(s)
              emitted(s) == {j \in 1..Len(calc.result) : calc.result[j].symbol = s}
          IN  /\ \A s \in ltKeys :
                    Cardinality(emitted(s)) = IF hlKeyOf(s) \in hlKeys THEN 1 ELSE 0
              /\ \A j \in 1..Len(calc.result) : calc.result[j].symbol \in ltKeys
              /\ \A i, j \in 1..Len(calc.result) :
                    i # j => hlKeyOf(calc.result[i].symbol) # hlKeyOf(calc.result[j].symbol)

\* C15: an opportunity for Lighter symbol s carries the rate of Hyperliquid's
\* s when Hyperliquid lists s, and otherwise the rate of K + rest for s =
\* 1000 + rest; a symbol listed neither way, or not starting with 1000 and
\* not listed exactly, yields no opportunity.
C15_ExactMatchBeforeTransform ==
    calc.pc = "matched"
       => LET hlKeys == {toUpperCase(calc.hyperliquidRates[k].symbol) :
                            k \in 1..Len(calc.hyperliquidRates)}
              ltKeys == {toUpperCase(calc.lighterRates[k].symbol) :
                            k \in 1..Len(calc.lighterRates)}
              kForm(s) == <<"K">> \o SubSeq(s, 5, Len(s))
              hlSide(opp) == IF opp.longExchange = "hyperliquid"
                             THEN opp.longFundingRate ELSE opp.shortFundingRate
          IN  /\ \A j \in 1..Len(calc.result) :
                    LET s == calc.result[j].symbol
                    IN  IF s \in hlKeys
                        THEN hlSide(calc.result[j]) = RatInt(MatchHyperliquidRate(s))
                        ELSE /\ startsWith1000(s)
                             /\ kForm(s) \in hlKeys
                             /\ hlSide(calc.result[j]) = RatInt(MatchHyperliquidRate(kForm(s)))
              /\ \A s \in ltKeys :
                    (s \notin hlKeys /\ ~(startsWith1000(s) /\ kForm(s) \in hlKeys))
                       => \A j \in 1..Len(calc.result) : calc.result[j].symbol # s

C15_Witness ==
    /\ calc.pc = "matched"
    /\ \E k \in 1..Len(calc.hyperliquidRates) : calc.hyperliquidRates[k].symbol = PEPE1000
    /\ \E k \in 1..Len(calc.hyperliquidRates) : calc.hyperliquidRates[k].symbol = KPEPE
    /\ \E k \in 1..Len(calc.lighterRates) : calc.lighterRates[k].symbol = KPEPE
    /\ \E j \in 1..Len(calc.result) :
          /\ calc.result[j].symbol = PEPE1000
          /\ calc.result[j].longExchange = "lighter"
          /\ calc.result[j].shortFundingRate = RatInt(16)

\* The window of the drawn period, written out from its definition, and the
\* positions of the drawn histories' entries that lie inside it.
HistWindowLength == IF calc.period = "7d" THEN 7 * Day ELSE 30 * Day

HistWindowStart ==
    IF calc.period = "ytd" \/ calc.now - HistWindowLength < YearStart
    THEN YearStart
    ELSE calc.now - HistWindowLength

HlInWindow ==
    {i \in 1..Len(calc.hl) :
        HistWindowStart <= calc.hl[i].timestamp /\ calc.hl[i].timestamp <= calc.now}

LtInWindow ==
    {i \in 1..Len(calc.lt) :
        HistWindowStart <= calc.lt[i].timestamp /\ calc.lt[i].timestamp <= calc.now}

\* C16: in the 7d and 30d results an instrument with at least one in-window
\* entry on one exchange and none on the other is left out of the period's
\* bucket; it is never included with the missing side counted as rate 0.
C16_OneSidedExcluded ==
    (calc.pc = "averaged" /\ calc.period \in {"7d", "30d"}
        /\ (HlInWindow = {}) # (LtInWindow = {}))
    => /\ \A i \in 1..Len(calc.result) : calc.result[i].symbol # BTC
       /\ ~(MapHas(calc.rates.hyperliquid, BTC) /\ MapHas(calc.rates.lighter, BTC))

\* Hyperliquid has an in-window entry, Lighter only entries outside the
\* window, and the bucket holds the other instrument alone.
C16_Witness ==
    /\ calc.pc = "averaged" /\ calc.period = "7d"
    /\ HlInWindow # {} /\ LtInWindow = {} /\ calc.lt # <<>>
    /\ MapHas(calc.rates.hyperliquid, BTC)
    /\ opportunitySymbols(calc.result) = <<PEPE1000>>

\* C17: in the per-symbol APR computation a window in which one exchange
\* has no entry is not computed as if that exchange's average were 0: no
\* APR is reported for that window (stated for the 7-day window).
C17_NoAPRForOneSidedWindow ==
    LET hl7 == {i \in 1..Len(calc.hl) : calc.hl[i].timestamp >= calc.now - 7 * Day}
        lt7 == {i \in 1..Len(calc.lt) : calc.lt[i].timestamp >= calc.now - 7 * Day}
    IN  (calc.pc = "aprs" /\ (hl7 = {}) # (lt7 = {}))
        => calc.aprs.apr7d = UndefinedAPR

C19_WindowClampedToYear ==
    LET inHl == SelectSeq(calc.hl, LAMBDA e : HistWindowStart <= e.timestamp
                                               /\ e.timestamp <= calc.now)
        inLt == SelectSeq(calc.lt, LAMBDA e : HistWindowStart <= e.timestamp
                                               /\ e.timestamp <= calc.now)
        inside == [calc EXCEPT !.hl = inHl, !.lt = inLt]
    IN  calc.pc = "averaged"
        => /\ calc.range = [startTime |-> HistWindowStart, endTime |-> calc.now]
           /\ YearStart <= calc.range.startTime
           /\ calc.range.startTime <= calc.now
           /\ MapHas(calc.rates.hyperliquid, BTC) <=> inHl # <<>>
           /\ MapHas(calc.rates.lighter, BTC) <=> inLt # <<>>
           /\ calc.rates = fetchAverageRates(HistSymbols, calc.period, calc.now,
                                             HistFetched(inside))

\* Three days into the year the 7d window starts at the start of the year;
\* an entry from before it and an entry ahead of the clock are left out of
\* the average, which is that of the one entry inside.
C19_Witness ==
    /\ calc.pc = "averaged" /\ calc.period = "7d"
    /\ calc.now = YearStart + 3 * Day
    /\ calc.range.startTime = YearStart
    /\ Len(calc.lt) = 2
    /\ calc.lt[1].timestamp = calc.now - 2 * Day
    /\ calc.lt[2].timestamp = calc.now - 8 * Day
    /\ Len(calc.hl) = 2
    /\ calc.hl[1].timestamp = calc.now - Day
    /\ calc.hl[2].timestamp = calc.now + Day
    /\ MapGet(calc.rates.lighter, BTC) = RatInt(16)
    /\ MapGet(calc.rates.hyperliquid, BTC) = RatInt(1)

\* C20: for each exchange with at least one in-window entry for an
\* instrument, the stored average hourly rate is the unweighted arithmetic
\* mean of rate / periodHours over those entries, each entry divided by its
\* own periodHours.  Every period drawn divides 8, so 8 * rate / periodHours
\* is a whole number and the mean m of n entries satisfies
\* 8 * n * m = sum of 8 * rate / periodHours.
C20_AverageIsUnweightedMean ==
    LET RECURSIVE EightfoldSum(_, _)
        EightfoldSum(h, picked) ==
            IF picked = {} THEN 0
            ELSE LET i == CHOOSE j \in picked : TRUE
                 IN  (8 * h[i].rate) \div h[i].periodHours
                        + EightfoldSum(h, picked \ {i})
        IsMean(m, h, picked) ==
            /\ m.d > 0
            /\ m.n * 8 * Cardinality(picked) = m.d * EightfoldSum(h, picked)
    IN  calc.pc = "averaged"
        => /\ HlInWindow # {}
                => IsMean(MapGet(calc.rates.hyperliquid, BTC), calc.hl, HlInWindow)
           /\ LtInWindow # {}
                => IsMean(MapGet(calc.rates.lighter, BTC), calc.lt, LtInWindow)

\* An 8-hourly entry of 8 units and an hourly entry of 16 units inside the
\* window average to (1 + 16) / 2 units an hour.
C20_Witness ==
    /\ calc.pc = "averaged"
    /\ Cardinality(HlInWindow) = 2
    /\ \E i, j \in HlInWindow :
          /\ calc.hl[i].periodHours = 8 /\ calc.hl[i].rate = 8
          /\ calc.hl[j].periodHours = 1 /\ calc.hl[j].rate = 16
    /\ MapGet(calc.rates.hyperliquid, BTC) = [n |-> 17, d |-> 2]

\* C21: in a historical batch a failed fetch for one instrument never aborts
\* the batch: every other instrument of the list is still fetched and, with
\* data on both exchanges, is in the period's result; the failing instrument
\* is absent.
C21_FailedFetchDoesNotAbortBatch ==
    calc.pc = "batched"
    => \A i \in 1..Len(BatchSymbols) :
          LET listed == \E k \in 1..Len(calc.result) :
                            calc.result[k].symbol = BatchSymbols[i]
          IN  /\ (calc.outcomes[i].hl = "entries" /\ calc.outcomes[i].lt = "entries")
                    => listed
              /\ (calc.outcomes[i].hl = "failed" \/ calc.outcomes[i].lt = "failed")
                    => ~listed

\* The first instrument's Hyperliquid fetch and the second's Lighter fetch
\* fail; the third, fetched after both, is the one instrument of the result.
C21_Witness ==
    /\ calc.pc = "batched"
    /\ calc.outcomes[1] = [hl |-> "failed", lt |-> "entries"]
    /\ calc.outcomes[2] = [hl |-> "entries", lt |-> "failed"]
    /\ calc.outcomes[3] = [hl |-> "entries", lt |-> "entries"]
    /\ opportunitySymbols(calc.result) = <<DORMANT>>

\* C22: the ytd bucket is empty in every reachable state: no refresh, read
\* or broadcast ever makes it non-empty, and none publishes a non-empty one.
C22_YtdAlwaysEmpty ==
    /\ cachedOpportunities["ytd"] = <<>>
    /\ out.type = "broadcast" => out.data["ytd"] = <<>>
    /\ (out.type = "response" /\ out.route = "opportunities")
          => out.body.opportunities["ytd"] = <<>>

\* A historical refresh has filled the 7d and 30d buckets and left ytd empty.
C22_Witness ==
    /\ writer.d30 # 0
    /\ cachedOpportunities["7d"] # <<>>
    /\ cachedOpportunities["30d"] # <<>>
    /\ cachedOpportunities["ytd"] = <<>>

\* C23 (as stated): a historical refresh is started only by a realtime
\* refresh that has just produced a non-empty opportunity list, and the
\* instruments it fetches are exactly the symbols of that list; while the
\* realtime list is empty the 7d and 30d buckets are left unchanged.
C23_HistoricalSeededByRealtime ==
    [][/\ \A h \in hists' :
             (\A g \in hists : g.id # h.id)
             => /\ cachedOpportunities'["realtime"] # <<>>
                /\ writer'.realtime = h.id
                /\ refreshes' = refreshes \ {r \in refreshes : r.id = h.id}
                /\ refreshes' # refreshes
                /\ h.symbols = opportunitySymbols(cachedOpportunities'["realtime"])
       /\ cachedOpportunities["realtime"] = <<>>
             => /\ cachedOpportunities'["7d"] = cachedOpportunities["7d"]
                /\ cachedOpportunities'["30d"] = cachedOpportunities["30d"]]_vars

\* C23 (amended): a historical refresh is started only by a realtime refresh
\* that has just produced a non-empty opportunity list, and the instruments
\* it fetches are exactly the symbols of that list; a realtime refresh that
\* produces an empty list starts no historical refresh and leaves the 7d and
\* 30d buckets unchanged.
C23_HistoricalSeededByRealtimeAmended ==
    [][/\ \A h \in hists' :
             (\A g \in hists : g.id # h.id)
             => /\ cachedOpportunities'["realtime"] # <<>>
                /\ writer'.realtime = h.id
                /\ refreshes' = refreshes \ {r \in refreshes : r.id = h.id}
                /\ refreshes' # refreshes
                /\ h.symbols = opportunitySymbols(cachedOpportunities'["realtime"])
       /\ (refreshes' # refreshes /\ refreshes' \subseteq refreshes
             /\ cachedOpportunities'["realtime"] = <<>>)
             => /\ hists' = hists
                /\ lastHistoricalUpdate' = lastHistoricalUpdate
                /\ cachedOpportunities'["7d"] = cachedOpportunities["7d"]
                /\ cachedOpportunities'["30d"] = cachedOpportunities["30d"]]_vars

\* A historical refresh seeded by the first realtime refresh is in flight
\* while a later realtime refresh has produced an empty list.
C23_Witness ==
    /\ \E h \in hists : h.id = 1 /\ h.symbols = <<PEPE1000, BTC>>
    /\ writer.realtime = 2
    /\ cachedOpportunities["realtime"] = <<>>

\* C24: a broadcast tick only reads the cache: it never starts a refresh and
\* leaves every bucket's data and timestamps unchanged, publishing whatever
\* is cached at that instant (possibly empty or stale) for all four periods.
C24_BroadcastOnlyReads ==
    [][out'.type = "broadcast"
        => /\ refreshes' = refreshes /\ hists' = hists /\ nextId' = nextId
           /\ readers' = readers /\ nextTimer' = nextTimer
           /\ cachedOpportunities' = cachedOpportunities
           /\ cachedCoins' = cachedCoins
           /\ lastUpdate' = lastUpdate
           /\ lastHistoricalUpdate' = lastHistoricalUpdate
           /\ ratesCache' = ratesCache
           /\ DOMAIN out'.data = {"realtime", "7d", "30d", "ytd"}
           /\ out'.data = cachedOpportunities]_vars

\* A broadcast of a stale and still empty cache: no refresh beyond the one
\* of the startup has been started.
C24_Witness ==
    /\ out.type = "broadcast"
    /\ IsStale(now, lastUpdate)
    /\ \A p \in Periods : out.data[p] = <<>>
    /\ nextId = 2

\* C25: in one broadcast a send failure to one subscriber does not prevent
\* delivery to the others: every other subscriber connected and OPEN at that
\* tick receives the message, the failing subscriber is removed from the
\* subscriber set, and a subscriber whose connection has closed is pruned
\* and never sent to again.
C25_SendFailureIsIsolated ==
    [][/\ calc'.last = "broadcast"
          => LET subscribed == {calc.clients[i] : i \in 1..Len(calc.clients)}
                 open == {c \in subscribed : calc.readyState[c] = "OPEN"}
             IN  /\ calc'.delivered = open \ calc'.threw
                 /\ \A c \in calc'.threw :
                       \A i \in 1..Len(calc'.clients) : calc'.clients[i] # c
                 /\ \A c \in subscribed \ calc'.threw :
                       \E i \in 1..Len(calc'.clients) : calc'.clients[i] = c
       /\ \A c \in Sockets :
             calc'.readyState[c] = "CLOSED"
             => /\ \A i \in 1..Len(calc'.clients) : calc'.clients[i] # c
                /\ c \notin calc'.delivered]_vars

\* Of three subscribers the first one's send throws; the second has closed
\* and been pruned; the third, visited after the failure, got the message.
C25_Witness ==
    /\ calc.pc = "ws" /\ calc.last = "broadcast"
    /\ calc.threw = {1}
    /\ calc.readyState[2] = "CLOSED"
    /\ calc.delivered = {3}
    /\ calc.clients = <<3>>

\* C26: with no readers at all the realtime bucket keeps being refreshed: a
\* refresh is started at startup and on every 60 s timer tick, every started
\* refresh eventually completes, and the bucket's lastUpdated timestamp
\* eventually exceeds any value it held before (here: any value it held
\* before the last timer tick of the stretch).
C26_RealtimeKeepsRefreshing ==
    /\ \E r \in refreshes : r.id = 1 /\ r.startedAt = StartTime
    /\ [][nextTimer' # nextTimer
            => /\ now >= nextTimer /\ nextTimer' = now + CACHE_TTL
               /\ \E r \in refreshes' \ refreshes : r.startedAt = now]_vars
    /\ \A k \in 1..MaxTimerTicks :
          <>(\E r \in refreshes : r.startedAt = StartTime + k * CACHE_TTL)
    /\ \A id \in 1..(MaxTimerTicks + 1) :
          (\E r \in refreshes : r.id = id) ~> (\A r \in refreshes : r.id # id)
    /\ \A t \in {0} \cup LiveTimes :
          (lastUpdate = t /\ t < LiveEnd) ~> (lastUpdate > t)

\* The refresh started by the last timer tick has completed and stamped the
\* bucket, no reader having ever asked.
C26_Witness ==
    /\ readers = {} /\ out = NoOut
    /\ nextId = MaxTimerTicks + 2
    /\ refreshes = {}
    /\ writer.lastUpdate = MaxTimerTicks + 1
    /\ lastUpdate = LiveEnd

\* C27: every historical refresh cycle the orchestrator starts recomputes
\* both the 7d and the 30d bucket from averages fetched during that same
\* cycle: neither of its two getAverageRatesForPeriod calls is answered from
\* the rates cache, so that no bucket is rebuilt, and stamped with a new
\* lastUpdated, from averages left over from an earlier cycle.
C27_CycleFetchesItsOwnAverages ==
    [][\A h \in hists : h \notin hists' => ~h.call.hit]_vars

\* C28: at most one historical (7d/30d) refresh is in flight at any time,
\* however long the earlier one takes.
C28_OneHistoricalRefreshInFlight == Cardinality(hists) <= 1

\* C29: any two HTTP requests sent through HyperliquidClient.makeRequest are
\* at least minRequestInterval apart, also when several calls run
\* concurrently on the same client.
C29_RequestsAreSpaced ==
    calc.pc = "client" =>
        \A m, n \in 1..Len(calc.posts) :
            m < n => calc.posts[n] - calc.posts[m] >= minRequestInterval

\* C30: makeRequest sends at most `retries` requests per call; it starts
\* another attempt only after a 429, and only once the retry-after value, or
\* 2^i * 2 seconds without the header, has passed; a 422 or any other error
\* ends the call at once; and every call ends, with a response or a thrown
\* error, 'Max retries exceeded' only when each of its `retries` attempts was
\* answered 429.
C30_CallState(c) ==
    LET k == calc.callers[c]
    IN  /\ k.sent <= k.retries
        /\ k.pc = "limit" => k.sent = k.i
        /\ k.pc \in {"post", "backoff"} => k.sent = k.i + 1
        /\ (k.pc = "backoff" \/ (k.pc = "limit" /\ k.i > 0)) => k.last = 429
        /\ k.last \in {200, 422, 0} => k.pc = "done"
        /\ k.pc = "done" =>
              \/ k.result = "response" /\ k.last = 200 /\ k.sent = k.i + 1
              \/ k.result = "Invalid request format" /\ k.last = 422 /\ k.sent = k.i + 1
              \/ k.result = "error" /\ k.last = 0 /\ k.sent = k.i + 1
              \/ /\ k.result = "Max retries exceeded"
                 /\ k.sent = k.retries /\ k.i = k.retries
                 /\ k.retries > 0 => k.last = 429

C30_CallStep(c) ==
    LET k == calc.callers[c]
        j == calc'.callers[c]
    IN  /\ j.sent # k.sent => j.sent = k.sent + 1 /\ j.pc = "post"
        /\ (j.i # k.i /\ k.pc # "idle") =>
              /\ j.i = k.i + 1 /\ k.pc = "backoff" /\ k.last = 429
              /\ calc.clock >= k.wake
        /\ (j.pc = "backoff" /\ k.pc # "backoff") =>
              /\ k.pc = "post"
              /\ j.wake - calc.clock \in {1, (2 ^ k.i) * 2}
        /\ k.pc = "done" => j = k

=============================================================================
